---------------------------- MODULE Spec2Model ----------------------------
(***************************************************************************)
(* PowerBI-Fabric_Metadata: the paginated fetcher                          *)
(* (powerbi_api_utils.get_paginated_data_async), the metadata orchestrator *)
(* (powerbi_metadata_extractor.get_all_metadata / run_extraction_to_fabric)*)
(* and the warehouse writer (fabric_utils.save_to_fabric_warehouse).       *)
(*                                                                         *)
(* Three specifications share the variables:                               *)
(*   Spec         one call of get_paginated_data_async against a server    *)
(*                that answers every request nondeterministically;         *)
(*   SpecExtract  one run of run_extraction_to_fabric, every fetch of the  *)
(*                orchestrator returning a list or raising;                *)
(*   SpecWriter   one call of save_to_fabric_warehouse on a batch.         *)
(***************************************************************************)
EXTENDS Integers, Sequences, FiniteSets, TLC

VARIABLES
    \* ---- get_paginated_data_async: arguments and locals
    params,         \* the caller's params (None or a query mapping)
    max_retries,    \* the caller's max_retries
    backoff_factor, \* the caller's backoff_factor
    all_data,       \* the accumulator
    next_page_url,  \* the URL of the page to fetch, None or "" to stop
    attempt,        \* the index of the for loop over range(max_retries)
    pc,             \* position in the function
    \* ---- get_paginated_data_async: what the outside sees
    sent,           \* the last request sent (url, params, page, attempt)
    resp,           \* the server's answer to it
    nreq,           \* number of requests sent
    sleeps,         \* the asyncio.sleep durations, in order
    served,         \* the `value` of every page answered successfully, in order
    \* ---- get_all_metadata / run_extraction_to_fabric
    epc,            \* position in the run
    include_report_app_users,
    capacities_df,
    gateways_data, gi, datasources_data, di,
    processed_gateways, all_gateway_datasources, all_datasource_users,
    gateways_df, gateway_datasources_df, gateway_datasource_users_df,
    workspaces_data,
    workspaces_df, workspace_users_df, reports_df, datasets_df, dataflows_df,
    apps_data, ai, all_apps, all_app_users, apps_df, app_users_df,
    ri, all_report_users,
    result,         \* the mapping get_all_metadata returned, NoResult before
    fetchLog,       \* the fetches issued, in order
    lastFetch,      \* the last fetch and its outcome
    error,          \* the exception that left the run, None before
    writerCalled,   \* save_to_fabric_warehouse was called by the run
    \* ---- save_to_fabric_warehouse
    wpc,            \* position in the writer
    pandas_dfs,     \* the batch: a sequence of <<table name, DataFrame>>
    ti,             \* index of the table being processed
    warehouse,      \* table name -> what the warehouse holds
    schemaCreated,  \* CREATE SCHEMA IF NOT EXISTS has run
    werror          \* the exception the writer re-raised, None before

fvars == <<params, max_retries, backoff_factor, all_data, next_page_url,
           attempt, pc, sent, resp, nreq, sleeps, served>>

gwvars == <<gateways_data, gi, datasources_data, di, processed_gateways,
            all_gateway_datasources, all_datasource_users, gateways_df,
            gateway_datasources_df, gateway_datasource_users_df>>

wsvars == <<workspaces_data, workspaces_df, workspace_users_df, reports_df,
            datasets_df, dataflows_df>>

appvars == <<apps_data, ai, all_apps, all_app_users, apps_df, app_users_df>>

rpvars == <<ri, all_report_users>>

evars == <<epc, include_report_app_users, capacities_df, gwvars, wsvars,
           appvars, rpvars, result, fetchLog, lastFetch, error, writerCalled>>

wvars == <<wpc, pandas_dfs, ti, warehouse, schemaCreated, werror>>

vars == <<fvars, evars, wvars>>

\* Python's None.
None == "<None>"

-----------------------------------------------------------------------------
(***************************************************************************)
(* Bounds of the model.                                                    *)
(***************************************************************************)
\* max_retries is drawn from 0..MaxRetries.
MaxRetries == 3
\* The server returns a continuation link on fewer than MaxPages pages, so
\* every chain of continuation links is finite.
MaxPages == 3

-----------------------------------------------------------------------------
(***************************************************************************)
(* The paginated fetcher, get_paginated_data_async.                        *)
(***************************************************************************)
\* The starting URL and the other URL a server may name as continuation.
StartUrl == "https://api/items"
OtherUrl == "https://api/items?skip"
\* A continuation link as data.get('@odata.nextLink') yields it: absent
\* (None), an empty string, or a URL (possibly the starting URL again).
Links == {None, "", StartUrl, OtherUrl}

\* The params a caller may pass.
ParamsInputs == {None, "$top=5000"}
BackoffInputs == {1, 3}

\* `value` of a response body: a list, a single object, or absent.
ListValue(items) == [present |-> TRUE, isList |-> TRUE, items |-> items]
ObjectValue(obj) == [present |-> TRUE, isList |-> FALSE, items |-> <<obj>>]
AbsentValue == [present |-> FALSE, isList |-> FALSE, items |-> <<>>]
PageValues ==
    {ListValue(<<>>), ListValue(<<"a">>), ListValue(<<"b", "a">>),
     ObjectValue("obj"), AbsentValue}

\* The statuses raise_for_status turns into HTTPStatusError here, and the
\* failures that are not HTTPStatusError.
ErrorStatuses == {429, 502, 503, 504, 403, 404, 500}
OtherFailures == {"network", "decode"}

NoResp == [kind |-> "none", status |-> 0, value |-> AbsentValue, link |-> None]
OkResp(v, l) == [kind |-> "ok", status |-> 200, value |-> v, link |-> l]
HttpError(s) == [kind |-> "http", status |-> s, value |-> AbsentValue, link |-> None]
Failure(k) == [kind |-> k, status |-> 0, value |-> AbsentValue, link |-> None]

NoRequest == [url |-> None, params |-> None, page |-> 0, attempt |-> 0]

RECURSIVE Pow2(_)
Pow2(n) == IF n = 0 THEN 1 ELSE 2 * Pow2(n - 1)

\* Truthy as `is not None`: the empty string taken for a URL.
TruthyNotNone(u) == u # None

\* `while next_page_url:` - None and "" are falsy.
Truthy(u) == u \notin {None, ""}

\* current_params = params if next_page_url == url else None
CurrentParams(u) == IF u = StartUrl THEN params ELSE None

\* value = data.get('value', [])
GetValue(data) == IF data.value.present THEN data.value ELSE ListValue(<<>>)

\* Accumulate with the accumulator overwritten by each list-valued page.
AccumulateOverwrite(acc, value) ==
    IF value.isList THEN value.items ELSE Append(acc, value.items[1])

\* all_data.extend(value) / all_data.append(value)
Accumulate(acc, value) ==
    IF value.isList THEN acc \o value.items ELSE Append(acc, value.items[1])

\* NextPageUrl following the continuation link after a non-list value too.
NextPageUrlFollowsLink(data) == data.link

\* next_page_url after a successful response: None after a non-list value,
\* data.get('@odata.nextLink') otherwise.
NextPageUrl(data) == IF GetValue(data).isList THEN data.link ELSE None

\* RetryStatuses with 500 taken for a transient status.
RetryStatusesWith500 == {429, 500, 502, 503, 504}

\* e.response.status_code in [429, 502, 503, 504]
RetryStatuses == {429, 502, 503, 504}

\* RetryAllowed with the bound off by one: attempt < max_retries.
RetryAllowedOffByOne(status, k) ==
    status \in {429, 502, 503, 504} /\ k < max_retries

\* RetryAllowed without the test of the attempts left.
RetryAllowedAlways(status, k) == status \in {429, 502, 503, 504}

\* ... and attempt < max_retries - 1
RetryAllowed(status, k) == status \in RetryStatuses /\ k < max_retries - 1

\* SleepTime with the exponent counted from 1.
SleepTimeShifted(k) == backoff_factor * Pow2(k + 1)

\* sleep_time = backoff_factor * (2 ** attempt)
SleepTime(k) == backoff_factor * Pow2(k)

\* The request of this attempt, as the server sees it.
Request == [url |-> next_page_url, params |-> CurrentParams(next_page_url),
            page |-> Len(served) + 1, attempt |-> attempt]

FetchIdle ==
    /\ params = None /\ max_retries = 0 /\ backoff_factor = 0
    /\ all_data = <<>> /\ next_page_url = None /\ attempt = 0 /\ pc = "idle"
    /\ sent = NoRequest /\ resp = NoResp /\ nreq = 0
    /\ sleeps = <<>> /\ served = <<>>

\* all_data = []; next_page_url = url
FetchInit ==
    /\ params \in ParamsInputs
    /\ max_retries \in 0..MaxRetries
    /\ backoff_factor \in BackoffInputs
    /\ all_data = <<>>
    /\ next_page_url = StartUrl
    /\ attempt = 0
    /\ pc = "while"
    /\ sent = NoRequest /\ resp = NoResp /\ nreq = 0
    /\ sleeps = <<>> /\ served = <<>>

\* while next_page_url: ... return all_data
WhileTest ==
    /\ pc = "while"
    /\ IF Truthy(next_page_url)
       THEN pc' = "for" /\ attempt' = 0
       ELSE pc' = "returned" /\ attempt' = attempt
    /\ UNCHANGED <<evars, wvars>>
    /\ UNCHANGED <<params, max_retries, backoff_factor, all_data,
                   next_page_url, sent, resp, nreq, sleeps, served>>

\* for attempt in range(max_retries): ... else: log "Max retries exceeded";
\* break (out of the while loop); return all_data
ForTest ==
    /\ pc = "for"
    /\ pc' = IF attempt < max_retries THEN "try" ELSE "returned"
    /\ UNCHANGED <<evars, wvars>>
    /\ UNCHANGED <<params, max_retries, backoff_factor, all_data,
                   next_page_url, attempt, sent, resp, nreq, sleeps, served>>

\* The try body on a successful response: accumulate, set next_page_url,
\* break out of the for loop.
TrySuccess ==
    /\ pc = "try"
    /\ \E v \in PageValues :
       \E l \in (IF Len(served) + 1 < MaxPages THEN Links ELSE {None, ""}) :
         LET data == OkResp(v, l) IN
         /\ sent' = Request
         /\ resp' = data
         /\ nreq' = nreq + 1
         /\ served' = Append(served, GetValue(data))
         /\ all_data' = Accumulate(all_data, GetValue(data))
         /\ next_page_url' = NextPageUrl(data)
         /\ pc' = "while"
    /\ UNCHANGED <<evars, wvars>>
    /\ UNCHANGED <<params, max_retries, backoff_factor, attempt, sleeps>>

\* except httpx.HTTPStatusError: sleep and go on with the next attempt, or
\* log and raise.
TryHTTPStatusError ==
    /\ pc = "try"
    /\ \E s \in ErrorStatuses :
         /\ sent' = Request
         /\ resp' = HttpError(s)
         /\ nreq' = nreq + 1
         /\ IF RetryAllowed(s, attempt)
            THEN /\ sleeps' = Append(sleeps, SleepTime(attempt))
                 /\ attempt' = attempt + 1
                 /\ pc' = "for"
            ELSE /\ pc' = "raised"
                 /\ UNCHANGED <<sleeps, attempt>>
    /\ UNCHANGED <<evars, wvars>>
    /\ UNCHANGED <<params, max_retries, backoff_factor, all_data,
                   next_page_url, served>>

\* except Exception: log and raise (network failure, undecodable body).
TryException ==
    /\ pc = "try"
    /\ \E k \in OtherFailures :
         /\ sent' = Request
         /\ resp' = Failure(k)
         /\ nreq' = nreq + 1
    /\ pc' = "raised"
    /\ UNCHANGED <<evars, wvars>>
    /\ UNCHANGED <<params, max_retries, backoff_factor, all_data,
                   next_page_url, attempt, sleeps, served>>

-----------------------------------------------------------------------------
(***************************************************************************)
(* Records and tables.  A JSON object is a function from its keys; a       *)
(* DataFrame built from a list of objects is the sequence of its rows, a   *)
(* row holding the keys whose cell is not NaN.                             *)
(***************************************************************************)
\* d.update(e)
Update(d, e) ==
    [k \in DOMAIN d \cup DOMAIN e |-> IF k \in DOMAIN e THEN e[k] ELSE d[k]]

\* d without the keys K
Drop(d, K) == [k \in DOMAIN d \ K |-> d[k]]

\* d.get(k)
Get(d, k) == IF k \in DOMAIN d THEN d[k] ELSE None

\* d.get(k, [])
GetList(d, k) == IF k \in DOMAIN d THEN d[k] ELSE <<>>

\* df.columns
Columns(df) == UNION {DOMAIN df[i] : i \in 1..Len(df)}

\* df.empty: no row, or no column
Empty(df) == Len(df) = 0 \/ Columns(df) = {}

\* col.replace('.', '_').replace(' ', '_'), on the column names that occur
SanitizeName(col) ==
    CASE col = "datasource.type" -> "datasource_type"
      [] col = "display name" -> "display_name"
      [] OTHER -> col

\* one row with its column names sanitized
SanitizeKeys(row) ==
    [c \in {SanitizeName(k) : k \in DOMAIN row} |->
        row[CHOOSE k \in DOMAIN row : SanitizeName(k) = c]]

\* df.columns = [col.replace(...) for col in df.columns], skipped when df.empty
SanitizeColumns(df) ==
    IF Empty(df) THEN df
    ELSE [i \in 1..Len(df) |-> SanitizeKeys(df[i])]

\* The columns json_normalize makes of one cell, renamed prefix + sanitized
\* key: of a flat object its keys, of a cell that is no object none.
Hoisted(row, col, prefix) ==
    IF col \in DOMAIN row
    THEN [c \in {prefix \o SanitizeName(k) : k \in DOMAIN row[col]} |->
             row[col][CHOOSE k \in DOMAIN row[col] :
                          prefix \o SanitizeName(k) = c]]
    ELSE <<>>

\* if col in df.columns: pd.concat([df.drop(columns=[col]),
\*     pd.json_normalize(df[col]) with prefixed, sanitized names], axis=1)
HoistColumn(df, col, prefix) ==
    IF Empty(df) \/ col \notin Columns(df) THEN df
    ELSE [i \in 1..Len(df) |->
             IF col \in DOMAIN df[i]
             THEN Update(Drop(df[i], {col}), Hoisted(df[i], col, prefix))
             ELSE df[i]]

RECURSIVE Join(_, _)
\* sep.join(xs)
Join(xs, sep) ==
    IF Len(xs) = 0 THEN ""
    ELSE IF Len(xs) = 1 THEN xs[1]
    ELSE xs[1] \o sep \o Join(Tail(xs), sep)

\* json.dumps(xs) of a list of strings
JsonDumps(xs) ==
    "[" \o Join([i \in 1..Len(xs) |-> "\"" \o xs[i] \o "\""], ", ") \o "]"

\* pd.to_datetime(s, errors='coerce')
ParseableTimestamps == {"2024-01-01T00:00:00Z"}
ToDatetime(s) == IF s \in ParseableTimestamps THEN "Timestamp(" \o s \o ")" ELSE "NaT"

\* df['admins'] = df['admins'].apply(lambda x: ', '.join(x) if list ...)
JoinAdmins(df) ==
    [i \in 1..Len(df) |->
        IF "admins" \in DOMAIN df[i]
        THEN [df[i] EXCEPT !["admins"] = Join(@, ", ")] ELSE df[i]]

\* df[col] = df[col].apply(lambda x: json.dumps(x) if isinstance(x, list) else x)
DumpColumn(df, col) ==
    [i \in 1..Len(df) |->
        IF col \in DOMAIN df[i]
        THEN [df[i] EXCEPT ![col] = JsonDumps(@)] ELSE df[i]]

\* df[col] = pd.to_datetime(df[col], errors='coerce')
ParseColumn(df, col) ==
    [i \in 1..Len(df) |->
        IF col \in DOMAIN df[i]
        THEN [df[i] EXCEPT ![col] = ToDatetime(@)] ELSE df[i]]

-----------------------------------------------------------------------------
(***************************************************************************)
(* The orchestrator, get_all_metadata, and its caller,                     *)
(* run_extraction_to_fabric.  Every fetch it issues either returns a list  *)
(* of records or raises; the records come from the small sets below.       *)
(***************************************************************************)
FetchErrors == {"HTTPStatusError 403", "ConnectError"}
Ok(data) == [failed |-> FALSE, data |-> data, error |-> None]
Failed(e) == [failed |-> TRUE, data |-> <<>>, error |-> e]
Outcomes(lists) == {Ok(d) : d \in lists} \cup {Failed(e) : e \in FetchErrors}

\* Capacities, each with its `admins` list.
cap1 == [id |-> "c1", admins |-> <<"ann", "bob">>]
CapacityInputs == {<<>>, <<cap1>>}

\* Gateways, with and without an id.
g1 == [id |-> "g1", name |-> "GW", publicKey |-> "key"]
g0 == [name |-> "NoId", gatewayAnnotation |-> "note"]
GatewayInputs == {<<>>, <<g1>>, <<g0, g1>>}

\* Datasources, with and without an id.
d1 == [id |-> "d1", credentialDetails |-> [useEndUserOAuth2Credentials |-> "no"],
       details |-> [server |-> "srv"]]
d0 == ("datasource.type" :> "File")
DatasourceInputs == {<<>>, <<d1>>, <<d0, d1>>}

du == [emailAddress |-> "a@b.com"]
DatasourceUserInputs == {<<>>, <<du>>}

\* Users: with a nested profile, without one, and carrying fields named like
\* the parent keys.
uP == [id |-> "u1", profile |-> [email |-> "a@b.com"]]
uN == [id |-> "u2"]
uW == [id |-> "u3", workspace_id |-> "stale", workspace_name |-> "stale"]
     @@ ("display name" :> "Cy")

r1 == [id |-> "r1", name |-> "Sales"]
r2 == [id |-> "r2", name |-> "Costs", workspace_id |-> "stale"]
ds1 == [id |-> "s1", qnaQuestions |-> <<"q1", "q2">>]
ds2 == [id |-> "s2"]
df1 == [objectId |-> "f1"]

wA == [id |-> "w1", name |-> "WS", state |-> "Active", users |-> <<uP, uN>>,
       reports |-> <<r1>>, datasets |-> <<ds1, ds2>>, dataflows |-> <<df1>>]
wB == [id |-> "w2", name |-> "Other", users |-> <<uW>>, reports |-> <<r2, r1>>]
wC == [id |-> "w3", name |-> "Bare"]
WorkspaceInputs == {<<>>, <<wA>>, <<wB>>, <<wC>>, <<wA, wB>>, <<wB, wA>>}

a1 == [id |-> "a1", name |-> "App", lastUpdateDateTime |-> "2024-01-01T00:00:00Z"]
a2 == [id |-> "a2", name |-> "Old", lastUpdateDateTime |-> "yesterday"]
AppInputs == {<<>>, <<a1>>, <<a2, a1>>}
AppUserInputs == {<<>>, <<uP>>}
ReportUserInputs == {<<>>, <<uN, uP>>}

\* The URLs of the endpoints.
BaseUrl == "https://api.powerbi.com/v1.0/myorg"
AdminBaseUrl == "https://api.powerbi.com/v1.0/myorg/admin"
CapacitiesUrl == AdminBaseUrl \o "/capacities"
GatewaysUrl == BaseUrl \o "/gateways"
DatasourcesUrl(gateway_id) == BaseUrl \o "/gateways/" \o gateway_id \o "/datasources"
DatasourceUsersUrl(gateway_id, datasource_id) ==
    BaseUrl \o "/gateways/" \o gateway_id \o "/datasources/" \o datasource_id \o "/users"
WorkspacesUrl == AdminBaseUrl \o "/groups"
AppsUrl == AdminBaseUrl \o "/apps"
AppUsersUrl(app_id) == AdminBaseUrl \o "/apps/" \o app_id \o "/users"
ReportUsersUrl(ws_id, report_id) ==
    AdminBaseUrl \o "/groups/" \o ws_id \o "/reports/" \o report_id \o "/users"

NoFetch == [ep |-> None, url |-> None, failed |-> FALSE, error |-> None]
NoResult == <<>>
TableNames ==
    {"capacities", "gateways", "gateway_datasources", "gateway_datasource_users",
     "workspaces", "workspace_users", "reports", "report_users", "datasets",
     "dataflows", "apps", "app_users"}

\* Raises with the failure swallowed: the fetch counts as an empty list.
RaisesNever(out) == FALSE

\* A fetch that raises leaves get_all_metadata (which catches nothing).
Raises(out) == out.failed

\* The fetch is issued: the log and the last outcome.
Issue(ep, url, out) ==
    /\ fetchLog' = Append(fetchLog, [ep |-> ep, url |-> url])
    /\ lastFetch' = [ep |-> ep, url |-> url, failed |-> out.failed,
                     error |-> out.error]

\* The exception leaves get_all_metadata and reaches run_extraction_to_fabric,
\* whose handler prints and re-raises it.
Raise(e) == epc' = "raised" /\ error' = e

\* capacities_df: admins joined, columns sanitized
ProcessCapacities(data) ==
    IF Empty(data) THEN data
    ELSE SanitizeColumns(JoinAdmins(data))

\* {k: v for k, v in gateway.items() if k not in ['publicKey', 'gatewayAnnotation']}
FilterGateway(gateway) == Drop(gateway, {"publicKey", "gatewayAnnotation"})

\* ds['gatewayId'] = gateway_id; credentialDetails popped and its items set
\* as credentialDetails_<k>
ProcessDatasource(ds, gateway_id) ==
    LET t == Update(ds, [gatewayId |-> gateway_id]) IN
    IF "credentialDetails" \in DOMAIN t
    THEN Update(Drop(t, {"credentialDetails"}),
                [c \in {"credentialDetails_" \o k : k \in DOMAIN t.credentialDetails} |->
                    t.credentialDetails[CHOOSE k \in DOMAIN t.credentialDetails :
                                            "credentialDetails_" \o k = c]])
    ELSE t

\* user['gatewayId'] = gateway_id; user['datasourceId'] = datasource_id
TagDatasourceUser(user, gateway_id, datasource_id) ==
    Update(user, [gatewayId |-> gateway_id, datasourceId |-> datasource_id])

\* TagWorkspace with the child's own fields kept over the parent keys.
TagWorkspaceChildWins(child, ws) ==
    Update([workspace_id |-> ws.id, workspace_name |-> ws.name], child)

\* child.update({'workspace_id': ws_id, 'workspace_name': ws_name})
TagWorkspace(child, ws) ==
    Update(child, [workspace_id |-> ws.id, workspace_name |-> ws.name])

RECURSIVE FanOut(_, _)
\* for ws in workspaces_data: for child in ws.get(key, []): tag and append
FanOut(wss, key) ==
    IF Len(wss) = 0 THEN <<>>
    ELSE LET ws == Head(wss)
             children == GetList(ws, key)
         IN [j \in 1..Len(children) |-> TagWorkspace(children[j], ws)]
            \o FanOut(Tail(wss), key)

WorkspaceKeys == {"id", "name", "isOnDedicatedCapacity", "capacityId", "type", "state"}

\* all_workspaces: {k: ws.get(k) for k in [...]}
WorkspaceRows(wss) ==
    [i \in 1..Len(wss) |-> [k \in WorkspaceKeys |-> Get(wss[i], k)]]

\* datasets_df: qnaQuestions and queryMetrics lists dumped as JSON
ProcessDatasets(rows) ==
    IF Empty(rows) THEN rows
    ELSE DumpColumn(DumpColumn(SanitizeColumns(rows), "qnaQuestions"),
                    "queryMetrics")

\* apps_df: columns sanitized, lastUpdateDateTime parsed
ProcessApps(rows) ==
    IF Empty(rows) THEN rows
    ELSE ParseColumn(SanitizeColumns(rows), "lastUpdateDateTime")

\* user.update({'app_id': app_id, 'app_name': app_name})
TagApp(user, app) == Update(user, [app_id |-> app.id, app_name |-> app.name])

\* row[col] of a DataFrame row: NaN where the row holds no value
Cell(row, col) == IF col \in DOMAIN row THEN row[col] ELSE "nan"

\* user.update({'report_id': ..., 'report_name': ..., 'workspace_id': ...})
TagReport(user, report) ==
    Update(user, [report_id |-> Cell(report, "id"),
                  report_name |-> Cell(report, "name"),
                  workspace_id |-> Cell(report, "workspace_id")])

\* ReportRows without the include_report_app_users test.
ReportRowsAlways == reports_df

\* The rows the report-users loop visits: reports_df.iterrows() when
\* include_report_app_users and not reports_df.empty, none otherwise.
ReportRows ==
    IF include_report_app_users /\ ~Empty(reports_df) THEN reports_df ELSE <<>>

ExtractIdle ==
    /\ epc = "idle" /\ include_report_app_users = FALSE
    /\ capacities_df = <<>>
    /\ gateways_data = <<>> /\ gi = 0 /\ datasources_data = <<>> /\ di = 0
    /\ processed_gateways = <<>> /\ all_gateway_datasources = <<>>
    /\ all_datasource_users = <<>> /\ gateways_df = <<>>
    /\ gateway_datasources_df = <<>> /\ gateway_datasource_users_df = <<>>
    /\ workspaces_data = <<>> /\ workspaces_df = <<>>
    /\ workspace_users_df = <<>> /\ reports_df = <<>> /\ datasets_df = <<>>
    /\ dataflows_df = <<>>
    /\ apps_data = <<>> /\ ai = 0 /\ all_apps = <<>> /\ all_app_users = <<>>
    /\ apps_df = <<>> /\ app_users_df = <<>>
    /\ ri = 0 /\ all_report_users = <<>>
    /\ result = NoResult /\ fetchLog = <<>> /\ lastFetch = NoFetch
    /\ error = None /\ writerCalled = FALSE

\* run_extraction_to_fabric up to the call of get_all_metadata: the answer
\* to the prompt decides include_report_app_users.
ExtractInit ==
    /\ epc = "capacities" /\ include_report_app_users \in BOOLEAN
    /\ capacities_df = <<>>
    /\ gateways_data = <<>> /\ gi = 0 /\ datasources_data = <<>> /\ di = 0
    /\ processed_gateways = <<>> /\ all_gateway_datasources = <<>>
    /\ all_datasource_users = <<>> /\ gateways_df = <<>>
    /\ gateway_datasources_df = <<>> /\ gateway_datasource_users_df = <<>>
    /\ workspaces_data = <<>> /\ workspaces_df = <<>>
    /\ workspace_users_df = <<>> /\ reports_df = <<>> /\ datasets_df = <<>>
    /\ dataflows_df = <<>>
    /\ apps_data = <<>> /\ ai = 0 /\ all_apps = <<>> /\ all_app_users = <<>>
    /\ apps_df = <<>> /\ app_users_df = <<>>
    /\ ri = 0 /\ all_report_users = <<>>
    /\ result = NoResult /\ fetchLog = <<>> /\ lastFetch = NoFetch
    /\ error = None /\ writerCalled = FALSE

\* Fetching Capacities
FetchCapacities ==
    /\ epc = "capacities"
    /\ \E out \in Outcomes(CapacityInputs) :
         /\ Issue("capacities", CapacitiesUrl, out)
         /\ IF Raises(out)
            THEN Raise(out.error) /\ UNCHANGED capacities_df
            ELSE /\ capacities_df' = ProcessCapacities(out.data)
                 /\ epc' = "gateways"
                 /\ UNCHANGED error
    /\ UNCHANGED <<fvars, wvars>>
    /\ UNCHANGED <<include_report_app_users, gwvars, wsvars, appvars, rpvars,
                   result, writerCalled>>

\* Fetching Gateways
FetchGateways ==
    /\ epc = "gateways"
    /\ \E out \in Outcomes(GatewayInputs) :
         /\ Issue("gateways", GatewaysUrl, out)
         /\ IF Raises(out)
            THEN Raise(out.error) /\ UNCHANGED <<gateways_data, gi>>
            ELSE /\ gateways_data' = out.data
                 /\ gi' = 1
                 /\ epc' = "gateway_loop"
                 /\ UNCHANGED error
    /\ UNCHANGED <<fvars, wvars>>
    /\ UNCHANGED <<include_report_app_users, capacities_df, datasources_data,
                   di, processed_gateways, all_gateway_datasources,
                   all_datasource_users, gateways_df, gateway_datasources_df,
                   gateway_datasource_users_df, wsvars, appvars, rpvars,
                   result, writerCalled>>

\* for gateway in gateways_data: a gateway whose id is missing or empty
GatewayWithoutId ==
    /\ epc = "gateway_loop" /\ gi <= Len(gateways_data)
    /\ ~Truthy(Get(gateways_data[gi], "id"))
    /\ processed_gateways' = Append(processed_gateways, FilterGateway(gateways_data[gi]))
    /\ gi' = gi + 1
    /\ UNCHANGED <<fvars, wvars>>
    /\ UNCHANGED <<epc, include_report_app_users, capacities_df, gateways_data,
                   datasources_data, di, all_gateway_datasources,
                   all_datasource_users, gateways_df, gateway_datasources_df,
                   gateway_datasource_users_df, wsvars, appvars, rpvars,
                   result, fetchLog, lastFetch, error, writerCalled>>

\* for gateway in gateways_data: fetching the datasources of a gateway
GatewayDatasources ==
    /\ epc = "gateway_loop" /\ gi <= Len(gateways_data)
    /\ Truthy(Get(gateways_data[gi], "id"))
    /\ processed_gateways' = Append(processed_gateways, FilterGateway(gateways_data[gi]))
    /\ \E out \in Outcomes(DatasourceInputs) :
         /\ Issue("datasources", DatasourcesUrl(gateways_data[gi].id), out)
         /\ IF Raises(out)
            THEN Raise(out.error) /\ UNCHANGED <<datasources_data, di>>
            ELSE /\ datasources_data' = out.data
                 /\ di' = 1
                 /\ epc' = "datasource_loop"
                 /\ UNCHANGED error
    /\ UNCHANGED <<fvars, wvars>>
    /\ UNCHANGED <<include_report_app_users, capacities_df, gateways_data, gi,
                   all_gateway_datasources, all_datasource_users, gateways_df,
                   gateway_datasources_df, gateway_datasource_users_df, wsvars,
                   appvars, rpvars, result, writerCalled>>

\* for ds in datasources_data: a datasource whose id is missing or empty
DatasourceWithoutId ==
    /\ epc = "datasource_loop" /\ di <= Len(datasources_data)
    /\ ~Truthy(Get(datasources_data[di], "id"))
    /\ all_gateway_datasources' =
           Append(all_gateway_datasources,
                  ProcessDatasource(datasources_data[di], gateways_data[gi].id))
    /\ di' = di + 1
    /\ UNCHANGED <<fvars, wvars>>
    /\ UNCHANGED <<epc, include_report_app_users, capacities_df, gateways_data,
                   gi, datasources_data, processed_gateways,
                   all_datasource_users, gateways_df, gateway_datasources_df,
                   gateway_datasource_users_df, wsvars, appvars, rpvars,
                   result, fetchLog, lastFetch, error, writerCalled>>

\* for ds in datasources_data: fetching the users of a datasource
DatasourceUsers ==
    /\ epc = "datasource_loop" /\ di <= Len(datasources_data)
    /\ Truthy(Get(datasources_data[di], "id"))
    /\ all_gateway_datasources' =
           Append(all_gateway_datasources,
                  ProcessDatasource(datasources_data[di], gateways_data[gi].id))
    /\ LET gateway_id == gateways_data[gi].id
           datasource_id == datasources_data[di].id
       IN \E out \in Outcomes(DatasourceUserInputs) :
            /\ Issue("datasource_users",
                     DatasourceUsersUrl(gateway_id, datasource_id), out)
            /\ IF Raises(out)
               THEN Raise(out.error) /\ UNCHANGED <<all_datasource_users, di>>
               ELSE /\ all_datasource_users' =
                         all_datasource_users \o
                         [j \in 1..Len(out.data) |->
                             TagDatasourceUser(out.data[j], gateway_id, datasource_id)]
                    /\ di' = di + 1
                    /\ UNCHANGED <<epc, error>>
    /\ UNCHANGED <<fvars, wvars>>
    /\ UNCHANGED <<include_report_app_users, capacities_df, gateways_data, gi,
                   datasources_data, processed_gateways, gateways_df,
                   gateway_datasources_df, gateway_datasource_users_df, wsvars,
                   appvars, rpvars, result, writerCalled>>

\* the loop over datasources_data ends: next gateway
DatasourcesDone ==
    /\ epc = "datasource_loop" /\ di > Len(datasources_data)
    /\ gi' = gi + 1
    /\ epc' = "gateway_loop"
    /\ UNCHANGED <<fvars, wvars>>
    /\ UNCHANGED <<include_report_app_users, capacities_df, gateways_data,
                   datasources_data, di, processed_gateways,
                   all_gateway_datasources, all_datasource_users, gateways_df,
                   gateway_datasources_df, gateway_datasource_users_df, wsvars,
                   appvars, rpvars, result, fetchLog, lastFetch, error,
                   writerCalled>>

\* the loop over gateways_data ends: the three gateway tables are built
GatewaysDone ==
    /\ epc = "gateway_loop" /\ gi > Len(gateways_data)
    /\ gateways_df' = SanitizeColumns(processed_gateways)
    /\ gateway_datasources_df' =
           HoistColumn(SanitizeColumns(all_gateway_datasources), "details", "details_")
    /\ gateway_datasource_users_df' = SanitizeColumns(all_datasource_users)
    /\ epc' = "workspaces"
    /\ UNCHANGED <<fvars, wvars>>
    /\ UNCHANGED <<include_report_app_users, capacities_df, gateways_data, gi,
                   datasources_data, di, processed_gateways,
                   all_gateway_datasources, all_datasource_users, wsvars,
                   appvars, rpvars, result, fetchLog, lastFetch, error,
                   writerCalled>>

\* Fetching Workspace-Level Data: one fetch with users, reports, datasets and
\* dataflows expanded, fanned out into five tables
FetchWorkspaces ==
    /\ epc = "workspaces"
    /\ \E out \in Outcomes(WorkspaceInputs) :
         /\ Issue("workspaces", WorkspacesUrl, out)
         /\ IF Raises(out)
            THEN Raise(out.error) /\ UNCHANGED wsvars
            ELSE /\ workspaces_data' = out.data
                 /\ workspaces_df' = SanitizeColumns(WorkspaceRows(out.data))
                 /\ workspace_users_df' =
                        HoistColumn(SanitizeColumns(FanOut(out.data, "users")),
                                    "profile", "profile_")
                 /\ reports_df' = SanitizeColumns(FanOut(out.data, "reports"))
                 /\ datasets_df' = ProcessDatasets(FanOut(out.data, "datasets"))
                 /\ dataflows_df' = SanitizeColumns(FanOut(out.data, "dataflows"))
                 /\ epc' = "apps"
                 /\ UNCHANGED error
    /\ UNCHANGED <<fvars, wvars>>
    /\ UNCHANGED <<include_report_app_users, capacities_df, gwvars, appvars,
                   rpvars, result, writerCalled>>

\* Fetching Apps (include_report_app_users)
FetchApps ==
    /\ epc = "apps" /\ include_report_app_users
    /\ \E out \in Outcomes(AppInputs) :
         /\ Issue("apps", AppsUrl, out)
         /\ IF Raises(out)
            THEN Raise(out.error) /\ UNCHANGED <<apps_data, ai>>
            ELSE /\ apps_data' = out.data
                 /\ ai' = 1
                 /\ epc' = "app_loop"
                 /\ UNCHANGED error
    /\ UNCHANGED <<fvars, wvars>>
    /\ UNCHANGED <<include_report_app_users, capacities_df, gwvars, wsvars,
                   all_apps, all_app_users, apps_df, app_users_df, rpvars,
                   result, writerCalled>>

\* Skipping Apps and App Users: apps_df and app_users_df are built of nothing
SkipApps ==
    /\ epc = "apps" /\ ~include_report_app_users
    /\ apps_df' = ProcessApps(all_apps)
    /\ app_users_df' = HoistColumn(SanitizeColumns(all_app_users), "profile", "profile_")
    /\ ri' = 1
    /\ epc' = "report_loop"
    /\ UNCHANGED <<fvars, wvars>>
    /\ UNCHANGED <<include_report_app_users, capacities_df, gwvars, wsvars,
                   apps_data, ai, all_apps, all_app_users, all_report_users,
                   result, fetchLog, lastFetch, error, writerCalled>>

\* for app in apps_data: fetching the users of an app
AppUsers ==
    /\ epc = "app_loop" /\ ai <= Len(apps_data)
    /\ all_apps' = Append(all_apps, apps_data[ai])
    /\ \E out \in Outcomes(AppUserInputs) :
         /\ Issue("app_users", AppUsersUrl(apps_data[ai].id), out)
         /\ IF Raises(out)
            THEN Raise(out.error) /\ UNCHANGED <<all_app_users, ai>>
            ELSE /\ all_app_users' =
                      all_app_users \o
                      [j \in 1..Len(out.data) |-> TagApp(out.data[j], apps_data[ai])]
                 /\ ai' = ai + 1
                 /\ UNCHANGED <<epc, error>>
    /\ UNCHANGED <<fvars, wvars>>
    /\ UNCHANGED <<include_report_app_users, capacities_df, gwvars, wsvars,
                   apps_data, apps_df, app_users_df, rpvars, result,
                   writerCalled>>

\* the loop over apps_data ends: apps_df and app_users_df are built
AppsDone ==
    /\ epc = "app_loop" /\ ai > Len(apps_data)
    /\ apps_df' = ProcessApps(all_apps)
    /\ app_users_df' = HoistColumn(SanitizeColumns(all_app_users), "profile", "profile_")
    /\ ri' = 1
    /\ epc' = "report_loop"
    /\ UNCHANGED <<fvars, wvars>>
    /\ UNCHANGED <<include_report_app_users, capacities_df, gwvars, wsvars,
                   apps_data, ai, all_apps, all_app_users, all_report_users,
                   result, fetchLog, lastFetch, error, writerCalled>>

\* for index, report in reports_df.iterrows(): fetching the users of a report
ReportUsers ==
    /\ epc = "report_loop" /\ ri <= Len(ReportRows)
    /\ LET report == ReportRows[ri] IN
       \E out \in Outcomes(ReportUserInputs) :
         /\ Issue("report_users",
                  ReportUsersUrl(Cell(report, "workspace_id"), Cell(report, "id")), out)
         /\ IF Raises(out)
            THEN Raise(out.error) /\ UNCHANGED <<all_report_users, ri>>
            ELSE /\ all_report_users' =
                      all_report_users \o
                      [j \in 1..Len(out.data) |-> TagReport(out.data[j], report)]
                 /\ ri' = ri + 1
                 /\ UNCHANGED <<epc, error>>
    /\ UNCHANGED <<fvars, wvars>>
    /\ UNCHANGED <<include_report_app_users, capacities_df, gwvars, wsvars,
                   appvars, result, writerCalled>>

\* report_users_df is built and the mapping of the twelve tables returned
Return ==
    /\ epc = "report_loop" /\ ri > Len(ReportRows)
    /\ result' =
         [capacities |-> capacities_df,
          gateways |-> gateways_df,
          gateway_datasources |-> gateway_datasources_df,
          gateway_datasource_users |-> gateway_datasource_users_df,
          workspaces |-> workspaces_df,
          workspace_users |-> workspace_users_df,
          reports |-> reports_df,
          report_users |->
              HoistColumn(SanitizeColumns(all_report_users), "profile", "profile_"),
          datasets |-> datasets_df,
          dataflows |-> dataflows_df,
          apps |-> apps_df,
          app_users |-> app_users_df]
    /\ epc' = "returned"
    /\ UNCHANGED <<fvars, wvars>>
    /\ UNCHANGED <<include_report_app_users, capacities_df, gwvars, wsvars,
                   appvars, rpvars, fetchLog, lastFetch, error, writerCalled>>

\* run_extraction_to_fabric calls save_to_fabric_warehouse(all_data_pandas_dfs,
\* warehouse_schema=..., spark_session=...); the writer's third parameter is
\* named spark, so the call raises TypeError before the writer's body runs,
\* and the handler re-raises it.
RunSave ==
    /\ epc = "returned"
    /\ writerCalled' = TRUE
    /\ Raise("TypeError")
    /\ UNCHANGED <<fvars, wvars>>
    /\ UNCHANGED <<include_report_app_users, capacities_df, gwvars, wsvars,
                   appvars, rpvars, result, fetchLog, lastFetch>>

-----------------------------------------------------------------------------
(***************************************************************************)
(* The warehouse writer, save_to_fabric_warehouse.  A cell of a DataFrame  *)
(* is its dtype and its text.                                              *)
(***************************************************************************)
Cell2(dtype, text) == [dtype |-> dtype, text |-> text]

\* cast_dataframe_to_fabric_compatible_types, per cell: timezone-aware
\* datetimes made naive, bool made nullable boolean, object serialized to a
\* string; the number of rows is kept.
CastCell(c) ==
    CASE c.dtype = "datetimetz" -> Cell2("datetime64[ns]", c.text)
      [] c.dtype = "bool" -> Cell2("boolean", c.text)
      [] c.dtype = "object" -> Cell2("str", c.text)
      [] OTHER -> c

cast_dataframe_to_fabric_compatible_types(df) ==
    IF Empty(df) THEN df
    ELSE [i \in 1..Len(df) |-> [k \in DOMAIN df[i] |-> CastCell(df[i][k])]]

\* The tables of a batch, in the order of the mapping, and the frames a
\* table may hold.
BatchNames == <<"capacities", "reports", "report_users">>
frameEmpty == <<>>
frameOne == <<[id |-> Cell2("object", "r1"), active |-> Cell2("bool", "True")]>>
frameTwo == <<[id |-> Cell2("object", "u1"), seen |-> Cell2("datetimetz", "2024-01-01")],
              [id |-> Cell2("object", "u2")]>>
BatchFrames == {frameEmpty, frameOne, frameTwo}

\* What the warehouse holds before the call: the previous run's snapshot.
OldSnapshot == <<[id |-> Cell2("str", "previous")]>>

\* The steps of the try block that may raise, in order.
WriteFailures == {"createDataFrame", "CREATE SCHEMA", "saveAsTable"}

WriterIdle ==
    /\ wpc = "idle" /\ pandas_dfs = <<>> /\ ti = 0
    /\ warehouse = <<>> /\ schemaCreated = FALSE /\ werror = None

WriterInit ==
    /\ wpc = "loop"
    /\ pandas_dfs \in {[i \in 1..Len(BatchNames) |-> <<BatchNames[i], f[i]>>] :
                         f \in [1..Len(BatchNames) -> BatchFrames]}
    /\ ti = 1
    /\ warehouse = [n \in {BatchNames[i] : i \in 1..Len(BatchNames)} |-> OldSnapshot]
    /\ schemaCreated = FALSE
    /\ werror = None

\* df_casted.shape[0] == 0: warning, continue
WriterSkip ==
    /\ wpc = "loop" /\ ti <= Len(pandas_dfs)
    /\ Len(cast_dataframe_to_fabric_compatible_types(pandas_dfs[ti][2])) = 0
    /\ ti' = ti + 1
    /\ UNCHANGED <<wpc, pandas_dfs, warehouse, schemaCreated, werror>>
    /\ UNCHANGED <<fvars, evars>>

\* createDataFrame, CREATE SCHEMA IF NOT EXISTS, write ... mode("overwrite")
\* .saveAsTable
WriterSave ==
    /\ wpc = "loop" /\ ti <= Len(pandas_dfs)
    /\ LET df_casted == cast_dataframe_to_fabric_compatible_types(pandas_dfs[ti][2]) IN
         /\ Len(df_casted) # 0
         /\ schemaCreated' = TRUE
         /\ warehouse' = [warehouse EXCEPT ![pandas_dfs[ti][1]] = df_casted]
    /\ ti' = ti + 1
    /\ UNCHANGED <<wpc, pandas_dfs, werror>>
    /\ UNCHANGED <<fvars, evars>>

\* except Exception: log, raise - a step of the try block raised
WriterFail ==
    /\ wpc = "loop" /\ ti <= Len(pandas_dfs)
    /\ Len(cast_dataframe_to_fabric_compatible_types(pandas_dfs[ti][2])) # 0
    /\ \E f \in WriteFailures :
         /\ werror' = f
         /\ schemaCreated' = (schemaCreated \/ f = "saveAsTable")
    /\ wpc' = "raised"
    /\ UNCHANGED <<pandas_dfs, ti, warehouse>>
    /\ UNCHANGED <<fvars, evars>>

\* the loop over pandas_dfs.items() ends
WriterReturn ==
    /\ wpc = "loop" /\ ti > Len(pandas_dfs)
    /\ wpc' = "returned"
    /\ UNCHANGED <<pandas_dfs, ti, warehouse, schemaCreated, werror>>
    /\ UNCHANGED <<fvars, evars>>

-----------------------------------------------------------------------------
(***************************************************************************)
(* The specifications.                                                     *)
(***************************************************************************)
Init == FetchInit /\ ExtractIdle /\ WriterIdle

Next ==
    \/ WhileTest
    \/ ForTest
    \/ TrySuccess
    \/ TryHTTPStatusError
    \/ TryException

Spec == Init /\ [][Next]_vars

\* The call runs on: the coroutine is awaited by its caller, every request
\* is answered or fails (timeout=45.0) and every sleep ends.
\* The calls start without params and with backoff_factor 1: neither is read
\* by a test of the function, they change only what is sent and how long the
\* sleeps are.
FairInit == Init /\ params = None /\ backoff_factor = 1

FairSpec == FairInit /\ [][Next]_vars /\ WF_vars(Next)

ExtractStart == FetchIdle /\ ExtractInit /\ WriterIdle

ExtractNext ==
    \/ FetchCapacities
    \/ FetchGateways
    \/ GatewayWithoutId
    \/ GatewayDatasources
    \/ DatasourceWithoutId
    \/ DatasourceUsers
    \/ DatasourcesDone
    \/ GatewaysDone
    \/ FetchWorkspaces
    \/ FetchApps
    \/ SkipApps
    \/ AppUsers
    \/ AppsDone
    \/ ReportUsers
    \/ Return
    \/ RunSave

SpecExtract == ExtractStart /\ [][ExtractNext]_vars

WriterStart == FetchIdle /\ ExtractIdle /\ WriterInit

WriterNext ==
    \/ WriterSkip
    \/ WriterSave
    \/ WriterFail
    \/ WriterReturn

SpecWriter == WriterStart /\ [][WriterNext]_vars

-----------------------------------------------------------------------------
(***************************************************************************)
(* The claims about the fetcher (specification Spec).                      *)
(***************************************************************************)
\* The statuses the claims call transient.
TransientStatuses == {429, 502, 503, 504}

RECURSIVE Flatten(_)
\* The items of a sequence of list-valued pages, page after page.
Flatten(pages) ==
    IF Len(pages) = 0 THEN <<>> ELSE Head(pages).items \o Flatten(Tail(pages))

AllLists(pages) == \A i \in 1..Len(pages) : pages[i].isList

\* C1: when every page was answered with a list-valued `value` and the chain
\* of continuation links ended, the call returns exactly the items served,
\* page after page and in the order inside each page, whatever retries came
\* before the successful answers.
C1_ItemsInServerOrder ==
    (pc = "returned" /\ AllLists(served)) => all_data = Flatten(served)

\* A call that returned three list-valued pages, one of them empty, after at
\* least two retried failures.
C1_Witness ==
    /\ pc = "returned" /\ AllLists(served) /\ Len(served) = 3
    /\ \E i \in 1..3 : served[i].items = <<>>
    /\ Len(all_data) >= 3
    /\ Len(sleeps) >= 2

\* C2: for max_retries >= 1, when the last allowed attempt on a page (so all
\* max_retries attempts on it) was answered with 429, 502, 503 or 504, the
\* call has raised: it neither goes on nor returns a list.
C2_ExhaustedRetriesRaise ==
    (/\ max_retries >= 1
     /\ resp.kind = "http" /\ resp.status \in TransientStatuses
     /\ sent.attempt = max_retries - 1)
    => pc = "raised"

\* All three attempts on the second page failed with a transient status,
\* items of the first page being accumulated.
C2_Witness ==
    /\ pc = "raised" /\ max_retries = 3
    /\ resp.kind = "http" /\ resp.status = 503
    /\ sent.attempt = 2 /\ sent.page = 2
    /\ Len(all_data) > 0

\* C3: attempt k of a page is sent after exactly the sleeps
\* backoff_factor * 2^0, ..., backoff_factor * 2^(k-1) of that page; the call
\* sleeps once per failed request that was retried and never after a
\* successful request or after the request it raised on; two failures and a
\* success on a single page give the sleeps backoff_factor, 2 * backoff_factor.
C3_BackoffSchedule ==
    /\ pc = "try" =>
         /\ Len(sleeps) >= attempt
         /\ \A k \in 0..(attempt - 1) :
              sleeps[Len(sleeps) - attempt + k + 1] = backoff_factor * Pow2(k)
    /\ Len(sleeps) = nreq - Len(served) - (IF pc = "raised" THEN 1 ELSE 0)
    /\ (pc = "returned" /\ nreq = 3 /\ Len(served) = 1)
         => sleeps = <<backoff_factor, 2 * backoff_factor>>

\* Two failed attempts, then a successful one: the call returned after the
\* sleeps 3 and 6 (backoff_factor 3).
C3_Witness ==
    /\ pc = "returned" /\ nreq = 3 /\ Len(served) = 1
    /\ backoff_factor = 3 /\ sleeps = <<3, 6>>
    /\ resp.kind = "ok"

\* A response that ends the call at once.
IsFatal(r) ==
    \/ r.kind = "http" /\ r.status \notin TransientStatuses
    \/ r.kind \in {"network", "decode"}

\* C4: after a response with any other error status, or a failure that is no
\* HTTP status error, the call has raised: no further request, no use of the
\* remaining attempts, no list returned, and no sleep for that response.
C4_FatalFailsAtOnce ==
    IsFatal(resp) =>
        /\ pc = "raised"
        /\ Len(sleeps) = nreq - Len(served) - 1

\* A 404 on the first attempt of the second page, two attempts left.
C4_Witness ==
    /\ pc = "raised" /\ resp.kind = "http" /\ resp.status = 404
    /\ sent.attempt = 0 /\ max_retries = 3 /\ sent.page = 2
    /\ Len(all_data) > 0 /\ sleeps = <<>>

NonList(r) == r.kind = "ok" /\ r.value.present /\ ~r.value.isList

\* C5: after a successful response whose `value` is present and not a list,
\* the accumulator is the items of the earlier pages followed by that one
\* value, the continuation link of the response is dropped and no further
\* request is sent; on the first page the result has exactly one element.
C5_NonListValueIsTerminal ==
    NonList(resp) =>
        /\ pc \in {"while", "returned"}
        /\ ~Truthy(next_page_url)
        /\ Len(served) = sent.page
        /\ all_data = Flatten(SubSeq(served, 1, Len(served) - 1))
                        \o <<resp.value.items[1]>>
        /\ sent.page = 1 => Len(all_data) = 1

\* A single object on the first page, with a continuation link: the call
\* returned that one element.
C5_Witness ==
    /\ pc = "returned" /\ NonList(resp) /\ Truthy(resp.link)
    /\ sent.page = 1 /\ nreq = 1
    /\ all_data = <<"obj">>

\* C6: every request that follows a continuation link is sent without the
\* caller's params. (Refuted: a continuation link equal to the starting URL
\* is requested with params.)
C6_ParamsOnlyOnFirstPage == sent.page > 1 => sent.params = None

\* The for loop has run out of attempts: its else branch ("Max retries
\* exceeded", break, return all_data) is the next step.
OutOfAttempts == pc = "for" /\ ~(attempt < max_retries)

\* C11: the for loop runs out of attempts only when max_retries = 0 (for
\* max_retries >= 1 every attempt loop ends by a successful break or by a
\* raise); with max_retries = 0 no request is ever sent, nothing is
\* accumulated and the call does not raise: it returns the empty list.
C11_ForElseOnlyWithoutAttempts ==
    /\ OutOfAttempts => max_retries = 0
    /\ max_retries = 0 =>
         /\ nreq = 0 /\ sent = NoRequest /\ sleeps = <<>>
         /\ all_data = <<>>
         /\ pc \in {"while", "for", "returned"}

\* A call with max_retries = 0 that returned through the else branch of the
\* for loop: no request sent, the empty list returned, the starting URL
\* still to be fetched.
C11_Witness ==
    /\ max_retries = 0 /\ pc = "returned"
    /\ nreq = 0 /\ all_data = <<>>
    /\ next_page_url = StartUrl

\* The call has ended: it returned or raised.
Ended == pc \in {"returned", "raised"}

\* A successful response with a list-valued `value` and no continuation link
\* to follow.
LastPage(r) == r.kind = "ok" /\ ~NonList(r) /\ r.link \in {None, ""}

\* For max_retries >= 1: an attempt index below max_retries, at most
\* max_retries requests for each of the pages requested so far, a return
\* only after a last page or a non-list value, and no step on after a last
\* page but the return.
RequestBound ==
    max_retries >= 1 =>
        /\ sent.attempt < max_retries
        /\ sent.page <= MaxPages
        /\ nreq <= sent.page * max_retries
        /\ pc = "returned" =>
             /\ LastPage(resp) \/ NonList(resp)
             /\ nreq <= Len(served) * max_retries
        /\ LastPage(resp) => pc \in {"while", "returned"}

\* C12: for max_retries >= 1 at most max_retries requests are sent per page,
\* so with a finite chain of P pages the call ends (returns or raises) after
\* at most P * max_retries requests; it returns as soon as a successful
\* response carries no continuation link, and otherwise returns only after
\* a non-list value.
C12_TerminatesWithinRequestBound == []RequestBound /\ <>Ended

\* A call that returned after three pages, each answered on the third and
\* last attempt: nine requests, P * max_retries.
C12_Witness ==
    /\ pc = "returned" /\ max_retries = 3
    /\ Len(served) = 3 /\ nreq = 9
    /\ LastPage(resp)

-----------------------------------------------------------------------------
(***************************************************************************)
(* The claim about the warehouse writer (specification SpecWriter).        *)
(***************************************************************************)
\* C7: when the writer fails on a table of the batch, no table of the batch
\* has been overwritten in the warehouse. (Refuted: the tables before the
\* failing one have been overwritten.)
C7_NoPartialSnapshot ==
    wpc = "raised" => \A n \in DOMAIN warehouse : warehouse[n] = OldSnapshot

-----------------------------------------------------------------------------
(***************************************************************************)
(* The claims about the orchestrator (specification SpecExtract).          *)
(***************************************************************************)
\* C8: once a fetch has failed, the run has ended with that same failure:
\* no later fetch, no table mapping returned, the writer never called.
C8_FailFast ==
    lastFetch.failed =>
        /\ epc = "raised"
        /\ error = lastFetch.error
        /\ DOMAIN result = {}
        /\ ~writerCalled
        /\ fetchLog[Len(fetchLog)].url = lastFetch.url

\* The users fetch of the third report failed, after ten fetches or more.
C8_Witness ==
    /\ lastFetch.failed /\ lastFetch.ep = "report_users"
    /\ epc = "raised" /\ error = "ConnectError"
    /\ Len(fetchLog) >= 10
    /\ ri = 3

IsReportUsersFetch(f) == f.ep = "report_users"

\* C9: a returned mapping has exactly the twelve table names; without user
\* detail no apps, app-users or report-users fetch was issued and those three
\* tables are empty; with user detail the report-users fetches are, in order,
\* one per row of the reports table, all after the workspaces fetch.
C9_TwelveTablesAndUserDetail ==
    DOMAIN result # {} =>
        /\ DOMAIN result = TableNames
        /\ ~include_report_app_users =>
             /\ \A i \in 1..Len(fetchLog) :
                  fetchLog[i].ep \notin {"apps", "app_users", "report_users"}
             /\ result.apps = <<>>
             /\ result.app_users = <<>>
             /\ result.report_users = <<>>
        /\ include_report_app_users =>
             /\ LET fetched == SelectSeq(fetchLog, IsReportUsersFetch) IN
                  /\ Len(fetched) = Len(result.reports)
                  /\ \A i \in 1..Len(fetched) :
                       fetched[i].url =
                           ReportUsersUrl(result.reports[i].workspace_id,
                                          result.reports[i].id)
             /\ \A i \in 1..Len(fetchLog) :
                  fetchLog[i].ep = "report_users" =>
                      \E j \in 1..(i - 1) : fetchLog[j].ep = "workspaces"

\* A returned mapping with user detail, three reports, and no capacity, no
\* gateway and no app at all.
C9_Witness ==
    /\ DOMAIN result = TableNames /\ include_report_app_users
    /\ Len(result.reports) = 3
    /\ result.capacities = <<>> /\ result.gateways = <<>> /\ result.apps = <<>>
    /\ Len(result.report_users) > 0

RECURSIVE Offset(_, _, _)
\* The number of children under `key` of the first i workspaces.
Offset(wss, key, i) ==
    IF i = 0 THEN 0 ELSE Offset(wss, key, i - 1) + Len(GetList(wss[i], key))

\* The children under `key` of the workspaces fetched have their rows in
\* `table`, one each, tagged with the id and name of their own workspace.
TaggedByParent(wss, key, table) ==
    /\ Len(table) = Offset(wss, key, Len(wss))
    /\ \A i \in 1..Len(wss) : \A j \in 1..Len(GetList(wss[i], key)) :
         LET child == wss[i][key][j]
             row == table[Offset(wss, key, i - 1) + j]
         IN /\ row.workspace_id = wss[i].id
            /\ row.workspace_name = wss[i].name
            /\ \A k \in DOMAIN child \cap {"id", "name", "objectId"} :
                 k \in DOMAIN row /\ row[k] = child[k]
            /\ "profile" \in DOMAIN child =>
                 /\ "profile" \notin DOMAIN row
                 /\ \A k \in DOMAIN child.profile :
                      /\ ("profile_" \o k) \in DOMAIN row
                      /\ row["profile_" \o k] = child.profile[k]

\* C10: every user, report, dataset and dataflow embedded in a fetched
\* workspace has exactly one row in its table, carrying the id and name of
\* the workspace it was embedded in (over a same-named field of its own); a
\* user's profile object is replaced by one profile_<key> column per key.
C10_ParentKeyTagging ==
    DOMAIN result # {} =>
        /\ TaggedByParent(workspaces_data, "users", result.workspace_users)
        /\ TaggedByParent(workspaces_data, "reports", result.reports)
        /\ TaggedByParent(workspaces_data, "datasets", result.datasets)
        /\ TaggedByParent(workspaces_data, "dataflows", result.dataflows)

\* Two workspaces: the first with a user carrying stale workspace fields of
\* its own, the second with the user {"id": "u1", "profile": {"email": ...}}
\* of workspace w1 "WS".
C10_Witness ==
    /\ DOMAIN result = TableNames
    /\ Len(workspaces_data) = 2 /\ workspaces_data[1].id = "w2"
    /\ Len(result.workspace_users) = 3
    /\ result.workspace_users[1].workspace_id = "w2"
    /\ result.workspace_users[2] =
         [id |-> "u1", workspace_id |-> "w1", workspace_name |-> "WS",
          profile_email |-> "a@b.com"]
    /\ Len(result.reports) = 3 /\ Len(result.datasets) = 2

====
